---- MODULE Spec2Model ----
(***************************************************************************)
(* A model of the AskStash server: the request handlers of src/routes.py   *)
(* over the three stores (users, documents, chat_history) and the helper   *)
(* functions of src/dependencies.py (token issue, text extraction).        *)
(*                                                                         *)
(* Texts (str and bytes values) are sequences of one-character strings,    *)
(* so that prefixes, lengths, joins and splits are computed as the code    *)
(* computes them.                                                          *)
(***************************************************************************)
EXTENDS Integers, Sequences, FiniteSets, TLC

VARIABLES
    users,          \* table "users": set of rows
    documents,      \* table "documents": set of rows
    chat_history,   \* table "chat_history": set of rows
    ids,            \* the tables' serial id counters
    now,            \* the wall clock (datetime.utcnow()), in ticks
    tokens,         \* tokens handed out so far (held by clients)
    req,            \* the request (or function input) being served
    resp            \* the response of the last operation

vars ==
    <<users, documents, chat_history, ids, now, tokens, req, resp>>

(***************************************************************************)
(* Text helpers: Python's str operations over sequences of characters.     *)
(***************************************************************************)

RECURSIVE Concat(_)
\* "".join(parts)
Concat(parts) ==
    IF parts = <<>> THEN <<>> ELSE Head(parts) \o Concat(Tail(parts))

RECURSIVE Join(_, _)
\* sep.join(parts)
Join(parts, sep) ==
    IF parts = <<>> THEN <<>>
    ELSE IF Len(parts) = 1 THEN parts[1]
    ELSE parts[1] \o sep \o Join(Tail(parts), sep)

\* str.startswith(prefix)
StartsWith(s, prefix) ==
    /\ Len(s) >= Len(prefix)
    /\ SubSeq(s, 1, Len(prefix)) = prefix

\* the characters str.strip() removes (those of the model's alphabet)
Whitespace ==
    {" ", "\n", "\t"}

RECURSIVE LStrip(_, _)
\* str.lstrip(chars)
LStrip(s, chars) ==
    IF s # <<>> /\ Head(s) \in chars THEN LStrip(Tail(s), chars) ELSE s

RECURSIVE RStrip(_, _)
RStrip(s, chars) ==
    IF s # <<>> /\ s[Len(s)] \in chars THEN RStrip(SubSeq(s, 1, Len(s) - 1), chars) ELSE s

\* str.strip()
Strip(s) ==
    RStrip(LStrip(s, Whitespace), Whitespace)

\* str.lower() on one character
LowerChar(c) ==
    CASE c = "A" -> "a" [] c = "B" -> "b" [] c = "C" -> "c" [] c = "D" -> "d"
      [] c = "E" -> "e" [] c = "F" -> "f" [] c = "G" -> "g" [] c = "H" -> "h"
      [] c = "I" -> "i" [] c = "J" -> "j" [] c = "K" -> "k" [] c = "L" -> "l"
      [] c = "M" -> "m" [] c = "N" -> "n" [] c = "O" -> "o" [] c = "P" -> "p"
      [] c = "Q" -> "q" [] c = "R" -> "r" [] c = "S" -> "s" [] c = "T" -> "t"
      [] c = "U" -> "u" [] c = "V" -> "v" [] c = "W" -> "w" [] c = "X" -> "x"
      [] c = "Y" -> "y" [] c = "Z" -> "z" [] OTHER -> c

\* str.lower()
Lower(s) ==
    [i \in 1..Len(s) |-> LowerChar(s[i])]

\* the index of the last occurrence of c in s, 0 if there is none
LastIndexOf(s, c) ==
    IF \E i \in 1..Len(s) : s[i] = c
    THEN CHOOSE i \in 1..Len(s) : s[i] = c /\ \A j \in (i + 1)..Len(s) : s[j] # c
    ELSE 0

DigitChar(d) ==
    CASE d = 0 -> "0" [] d = 1 -> "1" [] d = 2 -> "2" [] d = 3 -> "3" [] d = 4 -> "4"
      [] d = 5 -> "5" [] d = 6 -> "6" [] d = 7 -> "7" [] d = 8 -> "8" [] d = 9 -> "9"

RECURSIVE IntToStr(_)
\* str(n) of a natural number, as the f-string renders it
IntToStr(n) ==
    IF n < 10 THEN <<DigitChar(n)>> ELSE IntToStr(n \div 10) \o <<DigitChar(n % 10)>>

(***************************************************************************)
(* dependencies.py: extract_text_from_file.                                *)
(*                                                                         *)
(* The libraries the function calls are its environment, env:              *)
(*   guess   "raise" | "none" | "kind"   filetype.guess: raises, finds     *)
(*                                       nothing, or finds env.mime        *)
(*   pdf     "ok" | "fail"               PyPDF2 reads env.pages or raises  *)
(*   docx    "ok" | "fail"               python-docx reads env.paras and   *)
(*                                       env.tables or raises              *)
(*   utf8    "codec" | "Exception"       bytes.decode('utf-8') decodes or  *)
(*                                       raises UnicodeDecodeError as the  *)
(*                                       bytes decide, or raises another   *)
(*                                       exception                         *)
(*   latin1  "ok" | "fail"               bytes.decode('latin-1', ignore)   *)
(*   vision  "ok" | "fail"               PIL and the vision model answer   *)
(*                                       env.answer or raise               *)
(*   err     str(e) of whatever was raised                                 *)
(***************************************************************************)

MIME_PDF ==
    <<"a", "p", "p", "l", "i", "c", "a", "t", "i", "o", "n", "/", "p", "d", "f">>

MIME_DOCX ==
    <<"a", "p", "p", "l", "i", "c", "a", "t", "i", "o", "n", "/", "v", "n", "d", ".", "o", "p", "e", "n", "x", "m", "l", "f", "o", "r", "m", "a", "t", "s", "-", "o", "f", "f", "i", "c", "e", "d", "o", "c", "u", "m", "e", "n", "t", ".", "w", "o", "r", "d", "p", "r", "o", "c", "e", "s", "s", "i", "n", "g", "m", "l", ".", "d", "o", "c", "u", "m", "e", "n", "t">>

MIME_OCTET ==
    <<"a", "p", "p", "l", "i", "c", "a", "t", "i", "o", "n", "/", "o", "c", "t", "e", "t", "-", "s", "t", "r", "e", "a", "m">>

MIME_PNG ==
    <<"i", "m", "a", "g", "e", "/", "p", "n", "g">>

MIME_ZIP ==
    <<"a", "p", "p", "l", "i", "c", "a", "t", "i", "o", "n", "/", "z", "i", "p">>

MIME_TEXT ==
    <<"t", "e", "x", "t", "/", "p", "l", "a", "i", "n">>

TextExtensions ==
    { <<"t", "x", "t">>, <<"m", "d">>, <<"c", "s", "v">>, <<"j", "s", "o", "n">>, <<"x", "m", "l">>, <<"h", "t", "m", "l">>, <<"h", "t", "m">>, <<"r", "t", "f">> }

ImageExtensions ==
    { <<"j", "p", "g">>, <<"j", "p", "e", "g">>, <<"p", "n", "g">>, <<"g", "i", "f">>, <<"b", "m", "p">>, <<"w", "e", "b", "p">>, <<"t", "i", "f", "f">> }

\* a byte that is no valid UTF-8 (0xFF), and the character Latin-1 gives it
BadByte ==
    "0xFF"

Latin1OfBadByte ==
    "y-diaeresis"

\* bytes.decode('utf-8') succeeds
Utf8Valid(bytes) ==
    \A i \in 1..Len(bytes) : bytes[i] # BadByte

\* bytes.decode('latin-1', errors='ignore'): every byte is a character
Latin1Decode(bytes) ==
    [i \in 1..Len(bytes) |-> IF bytes[i] = BadByte THEN Latin1OfBadByte ELSE bytes[i]]

\* filetype.guess(file_content): kind.mime if kind else 'application/octet-stream'
FileTypeOf(env) ==
    IF env.guess = "kind" THEN env.mime ELSE MIME_OCTET

\* filename.lower().split('.')[-1] if '.' in filename else ''
FileExtension(filename) ==
    LET low == Lower(filename)
        dot == LastIndexOf(low, ".")
    IN  IF dot = 0 THEN <<>> ELSE SubSeq(low, dot + 1, Len(low))

\* the PDF branch's loop over pdf_reader.pages
PdfPageParts(pages) ==
    LET keep == {i \in 1..Len(pages) : pages[i] # <<>> /\ Strip(pages[i]) # <<>>}
        F[i \in 0..Len(pages)] ==
            IF i = 0 THEN <<>>
            ELSE IF i \in keep
                 THEN Append(F[i - 1],
                             <<"\n", "-", "-", "-", " ", "P", "a", "g", "e", " ">> \o IntToStr(i) \o <<" ", "-", "-", "-", "\n">> \o pages[i] \o <<"\n">>)
                 ELSE F[i - 1]
    IN  F[Len(pages)]

RECURSIVE FlattenCells(_)
\* for table in doc.tables: for row in table.rows: for cell in row.cells
FlattenCells(tables) ==
    IF tables = <<>> THEN <<>>
    ELSE Concat(Head(tables)) \o FlattenCells(Tail(tables))

\* the Word branch's two loops: non-blank paragraphs, then non-blank cells
DocxParts(paras, tables) ==
    SelectSeq(paras, LAMBDA t : Strip(t) # <<>>)
        \o SelectSeq(FlattenCells(tables), LAMBDA t : Strip(t) # <<>>)

Returned(branch, text) ==
    [raised |-> FALSE, branch |-> branch, text |-> text]

Raised(branch) ==
    [raised |-> TRUE, branch |-> branch, text |-> <<>>]

ExtractPdf(env) ==
    IF env.pdf = "ok"
    THEN Returned("pdf", Strip(Concat(PdfPageParts(env.pages))))
    ELSE Returned("pdf", <<"[", "E", "r", "r", "o", "r", " ", "r", "e", "a", "d", "i", "n", "g", " ", "P", "D", "F", ":", " ">> \o env.err \o <<"]">>)

ExtractDocx(env) ==
    IF env.docx = "ok"
    THEN Returned("docx", Strip(Join(DocxParts(env.paras, env.tables), <<"\n">>)))
    ELSE Returned("docx", <<"[", "E", "r", "r", "o", "r", " ", "r", "e", "a", "d", "i", "n", "g", " ", "W", "o", "r", "d", " ", "d", "o", "c", "u", "m", "e", "n", "t", ":", " ">> \o env.err \o <<"]">>)

ExtractLegacyDoc(filename) ==
    Returned("doc",
        <<"[", "L", "e", "g", "a", "c", "y", " ", "W", "o", "r", "d", " ", "d", "o", "c", "u", "m", "e", "n", "t", " ", "(", ".", "d", "o", "c", ")", " ", "d", "e", "t", "e", "c", "t", "e", "d", ".", " ", "P", "l", "e", "a", "s", "e", " ", "c", "o", "n", "v", "e", "r", "t", " ", "t", "o", " ", ".", "d", "o", "c", "x", " ", "f", "o", "r", "m", "a", "t", " ", "f", "o", "r", " ", "b", "e", "t", "t", "e", "r", " ", "t", "e", "x", "t", " ", "e", "x", "t", "r", "a", "c", "t", "i", "o", "n", ".", " ", "F", "i", "l", "e", "n", "a", "m", "e", ":", " ">>
            \o filename \o <<"]">>)

\* try decode('utf-8') / except UnicodeDecodeError: decode('latin-1') / except Exception.
\* An exception raised inside the UnicodeDecodeError handler is not caught by the
\* sibling "except Exception": it leaves the branch.
ExtractText(file_content, env) ==
    IF env.utf8 = "Exception"
    THEN Returned("text", <<"[", "E", "r", "r", "o", "r", " ", "r", "e", "a", "d", "i", "n", "g", " ", "t", "e", "x", "t", " ", "f", "i", "l", "e", ":", " ">> \o env.err \o <<"]">>)
    ELSE IF Utf8Valid(file_content)
    THEN Returned("text", file_content)
    ELSE IF env.latin1 = "ok"
    THEN Returned("text", Latin1Decode(file_content))
    ELSE Raised("text")

ExtractImage(filename, env) ==
    IF env.vision = "ok"
    THEN Returned("image", <<"[", "I", "m", "a", "g", "e", " ", "c", "o", "n", "t", "e", "n", "t", " ", "f", "r", "o", "m", " ">> \o filename \o <<"]", "\n">> \o env.answer)
    ELSE Returned("image", <<"[", "I", "m", "a", "g", "e", " ", "c", "o", "n", "t", "e", "n", "t", " ", "f", "r", "o", "m", " ">> \o filename
                               \o <<" ", "-", " ", "V", "i", "s", "i", "o", "n", " ", "p", "r", "o", "c", "e", "s", "s", "i", "n", "g", " ", "e", "r", "r", "o", "r", ":", " ">> \o env.err \o <<"]">>)

ExtractUnsupported(file_type, file_extension) ==
    Returned("unsupported", <<"[", "U", "n", "s", "u", "p", "p", "o", "r", "t", "e", "d", " ", "f", "i", "l", "e", " ", "t", "y", "p", "e", ":", " ">> \o file_type
                                \o <<" ", "(", "e", "x", "t", "e", "n", "s", "i", "o", "n", ":", " ", ".">> \o file_extension \o <<")", ".", "]">>)

\* a chain that tests for an image before it tests for a text (not what the
\* code does)
DispatchImageBeforeText(file_content, filename, env) ==
    LET file_type == FileTypeOf(env)
        file_extension == FileExtension(filename)
    IN  IF file_type = MIME_PDF \/ file_extension = <<"p", "d", "f">>
        THEN ExtractPdf(env)
        ELSE IF file_type = MIME_DOCX \/ file_extension = <<"d", "o", "c", "x">>
        THEN ExtractDocx(env)
        ELSE IF file_extension = <<"d", "o", "c">>
        THEN ExtractLegacyDoc(filename)
        ELSE IF StartsWith(file_type, <<"i", "m", "a", "g", "e", "/">>) \/ file_extension \in ImageExtensions
        THEN ExtractImage(filename, env)
        ELSE IF StartsWith(file_type, <<"t", "e", "x", "t", "/">>) \/ file_extension \in TextExtensions
        THEN ExtractText(file_content, env)
        ELSE ExtractUnsupported(file_type, file_extension)

\* the if / elif chain of extract_text_from_file
DispatchBranches(file_content, filename, env) ==
    LET file_type == FileTypeOf(env)
        file_extension == FileExtension(filename)
    IN  IF file_type = MIME_PDF \/ file_extension = <<"p", "d", "f">>
        THEN ExtractPdf(env)
        ELSE IF file_type = MIME_DOCX \/ file_extension = <<"d", "o", "c", "x">>
        THEN ExtractDocx(env)
        ELSE IF file_extension = <<"d", "o", "c">>
        THEN ExtractLegacyDoc(filename)
        ELSE IF StartsWith(file_type, <<"t", "e", "x", "t", "/">>) \/ file_extension \in TextExtensions
        THEN ExtractText(file_content, env)
        ELSE IF StartsWith(file_type, <<"i", "m", "a", "g", "e", "/">>) \/ file_extension \in ImageExtensions
        THEN ExtractImage(filename, env)
        ELSE ExtractUnsupported(file_type, file_extension)

\* the body of the outer try
ExtractBody(file_content, filename, env) ==
    IF env.guess = "raise" THEN Raised("sniff")
    ELSE DispatchBranches(file_content, filename, env)

\* the function without its outer try (not what the code does)
NoOuterExcept(r, filename, env) ==
    r

\* the outer "except Exception as e"
OuterExcept(r, filename, env) ==
    IF r.raised
    THEN Returned(r.branch, <<"[", "E", "r", "r", "o", "r", " ", "e", "x", "t", "r", "a", "c", "t", "i", "n", "g", " ", "t", "e", "x", "t", " ", "f", "r", "o", "m", " ">> \o filename \o <<":", " ">>
                                \o env.err \o <<"]">>)
    ELSE r

extract_text_from_file(file_content, filename, env) ==
    OuterExcept(ExtractBody(file_content, filename, env), filename, env)

(***************************************************************************)
(* dependencies.py: passwords and tokens.  An optional value (None or a    *)
(* value) is a sequence of length 0 or 1.                                  *)
(***************************************************************************)

\* hashlib.sha256(password.encode()).hexdigest(): a digest that depends on the
\* password alone (collisions are not modelled)
hash_password(password) ==
    <<"sha256", password>>

verify_password(plain_password, hashed_password) ==
    hash_password(plain_password) = hashed_password

\* timedelta(minutes=15), in ticks of the clock
DefaultExpireMinutes ==
    15

\* create_access_token(data, expires_delta=None) called at time utcnow.
\* "if expires_delta:" is the truth value of the timedelta: None and
\* timedelta(0) are both false.
create_access_token(data, expires_delta, utcnow) ==
    LET expire == IF expires_delta # <<>> /\ expires_delta[1] # 0
                  THEN utcnow + expires_delta[1]
                  ELSE utcnow + DefaultExpireMinutes
    IN  [user_id |-> data.user_id, exp |-> expire, key |-> "SECRET_KEY"]

\* the HTTPException a handler or dependency raises
HTTPException(status_code, detail) ==
    [type |-> "HTTPException", status_code |-> status_code, detail |-> detail]

\* get_current_user_id(token) called at time utcnow: jwt.decode checks the
\* signature, then the expiry (expired when exp <= now); the result is either
\* the user id or the HTTPException raised.
get_current_user_id(token, utcnow) ==
    IF token = <<>>
    THEN [ok |-> FALSE, user_id |-> 0, exc |-> HTTPException(401, "Token is missing")]
    ELSE IF token[1].key # "SECRET_KEY"
    THEN [ok |-> FALSE, user_id |-> 0,
          exc |-> HTTPException(401, "Could not validate credentials")]
    ELSE IF token[1].exp <= utcnow
    THEN [ok |-> FALSE, user_id |-> 0, exc |-> HTTPException(401, "Token has expired")]
    ELSE IF token[1].user_id = <<>>
    THEN [ok |-> FALSE, user_id |-> 0,
          exc |-> HTTPException(401, "Could not validate credentials")]
    ELSE [ok |-> TRUE, user_id |-> token[1].user_id[1], exc |-> HTTPException(200, "")]

(***************************************************************************)
(* routes.py: what a handler's try block ends with, and the handler's      *)
(* "except Exception as e: raise HTTPException(500, detail=str(e))".       *)
(* HTTPException is an Exception, so the handler's own raises are caught   *)
(* too.  str(e) is modelled by the exception itself.                       *)
(***************************************************************************)

Return(status_code, body) ==
    [kind |-> "return", status_code |-> status_code, body |-> body]

Raise(exc) ==
    [kind |-> "raise", status_code |-> 0, body |-> exc]

\* the failure of a store call (supabase ... .execute() raising)
APIError ==
    [type |-> "APIError", status_code |-> 0, detail |-> "store call failed"]

ExceptException(r) ==
    IF r.kind = "raise"
    THEN Raise(HTTPException(500, r.body))
    ELSE r

\* the framework's rendering of a handler's outcome: a raised HTTPException
\* becomes the response with its status code and detail
Respond(op, user_id, r) ==
    IF r.kind = "raise"
    THEN [op |-> op, user_id |-> user_id, status |-> r.body.status_code,
          body |-> [detail |-> r.body.detail]]
    ELSE [op |-> op, user_id |-> user_id, status |-> r.status_code, body |-> r.body]

\* the response when the dependency get_current_user_id raised: the handler
\* is never entered
RespondUnauthenticated(op, auth) ==
    [op |-> op, user_id |-> 0, status |-> auth.exc.status_code,
     body |-> [detail |-> auth.exc.detail]]

(***************************************************************************)
(* The store: the queries the handlers send.  A select without an order    *)
(* returns its rows in an order the store chooses.  created_at is distinct *)
(* within a table (Stamp), so an ordered select has one result.            *)
(***************************************************************************)

\* every ordering of a finite set of rows
Orderings(S) ==
    {s \in [1..Cardinality(S) -> S] : \A i, j \in 1..Cardinality(S) : i # j => s[i] # s[j]}

\* .order("created_at", desc=True): the row with i - 1 later rows comes i-th
OrderByCreatedAtDesc(S) ==
    LET later == [r \in S |-> Cardinality({q \in S : q.created_at > r.created_at})]
    IN  [i \in 1..Cardinality(S) |-> CHOOSE r \in S : later[r] = i - 1]

\* .limit(n)
Limit(s, n) ==
    SubSeq(s, 1, IF Len(s) < n THEN Len(s) ELSE n)

\* the rows as the store returned them, newest first (not what the code does)
NotReversed(s) ==
    s

\* list(reversed(rows))
Reversed(s) ==
    [i \in 1..Len(s) |-> s[Len(s) + 1 - i]]

\* table("users").select(...).eq("email", email)
UsersByEmail(email) ==
    {u \in users : u.email = email}

\* table("documents").select(...).eq("user_id", user_id)
DocumentsOfUser(docs, user_id) ==
    {d \in docs : d.user_id = user_id}

\* the select by id without .eq("user_id", ...) (not what the code does)
DocumentByIdOfAnyUser(docs, document_id, user_id) ==
    {d \in docs : d.id = document_id}

\* table("documents").select(...).eq("id", document_id).eq("user_id", user_id)
DocumentByIdOfUser(docs, document_id, user_id) ==
    {d \in docs : d.id = document_id /\ d.user_id = user_id}

\* .in_("id", selected_documents) on a query of every user's documents (not
\* what the code does)
DocumentsOfAnyUserIn(docs, user_id, selected_documents) ==
    {d \in docs : \E i \in 1..Len(selected_documents) : selected_documents[i] = d.id}

\* query.in_("id", selected_documents) on the query of the user's documents
DocumentsOfUserIn(docs, user_id, selected_documents) ==
    {d \in DocumentsOfUser(docs, user_id) :
        \E i \in 1..Len(selected_documents) : selected_documents[i] = d.id}

\* table("chat_history").select("*").eq("user_id", user_id)
ChatHistoryOfUser(user_id) ==
    {t \in chat_history : t.user_id = user_id}

(***************************************************************************)
(* dependencies.py: generate_response.  The generative model is the        *)
(* environment: llm.ok says whether the call succeeds, llm.text is its     *)
(* completion, llm.err the error's text.                                   *)
(***************************************************************************)

\* which of the two prompt templates is built
PromptTemplate(context) ==
    IF context # <<>> /\ Strip(context) # <<>> THEN "context-grounded" ELSE "general-knowledge"

generate_response(message, context, llm) ==
    IF llm.ok
    THEN llm.text
    ELSE <<"I", " ", "a", "p", "o", "l", "o", "g", "i", "z", "e", ",", " ", "b", "u", "t", " ", "I", " ", "e", "n", "c", "o", "u", "n", "t", "e", "r", "e", "d", " ", "a", "n", " ", "e", "r", "r", "o", "r", " ", "w", "h", "i", "l", "e", " ", "p", "r", "o", "c", "e", "s", "s", "i", "n", "g", " ", "y", "o", "u", "r", " ", "r", "e", "q", "u", "e", "s", "t", ":", " ">> \o llm.err

(***************************************************************************)
(* routes.py: the handlers.  Each ...Try is the handler's try block; the   *)
(* handler is the try block under ExceptException.  db is the store's      *)
(* answer to the handler's first call: "ok", or "APIError" when it raises. *)
(***************************************************************************)

\* register
RegisterTry(user, db, utcnow) ==
    IF db = "APIError" THEN Raise(APIError)
    ELSE IF UsersByEmail(user.email) # {}
    THEN Raise(HTTPException(400, "Email already registered"))
    ELSE LET user_data == [id |-> ids.users, email |-> user.email,
                           password_hash |-> hash_password(user.password),
                           full_name |-> user.full_name, created_at |-> utcnow]
         IN  Return(201, [access_token |-> create_access_token([user_id |-> <<user_data.id>>],
                                                               <<>>, utcnow),
                          token_type |-> "bearer",
                          user |-> user_data])

register(user, db, utcnow) ==
    ExceptException(RegisterTry(user, db, utcnow))

\* response_model=Token: the user is rendered as a UserResponse
AsTokenResponse(r) ==
    IF r.kind = "return"
    THEN [r EXCEPT !.body.user = [id |-> r.body.user.id, email |-> r.body.user.email,
                                  full_name |-> r.body.user.full_name]]
    ELSE r

\* login
LoginTry(form_data, db, utcnow) ==
    IF db = "APIError" THEN Raise(APIError)
    ELSE IF UsersByEmail(form_data.email) = {}
    THEN Raise(HTTPException(401, "Invalid credentials"))
    ELSE LET user_data == CHOOSE u \in UsersByEmail(form_data.email) : TRUE
         IN  IF ~verify_password(form_data.password, user_data.password_hash)
             THEN Raise(HTTPException(401, "Invalid credentials"))
             ELSE Return(200, [access_token |-> create_access_token(
                                                    [user_id |-> <<user_data.id>>], <<>>, utcnow),
                               token_type |-> "bearer",
                               user |-> user_data])

login(form_data, db, utcnow) ==
    ExceptException(LoginTry(form_data, db, utcnow))

\* 10 * 1024 * 1024
MaxUploadBytes ==
    10485760

PreviewChars ==
    200

MinTextChars ==
    10

\* the warning of upload_file
WarningMessage(extracted_text) ==
    IF StartsWith(extracted_text, <<"[", "E", "r", "r", "o", "r">>) \/ Len(Strip(extracted_text)) < MinTextChars
    THEN <<"Text extraction may have had issues. Please verify.">>
    ELSE <<>>

\* upload_file.  file is [filename, size, bytes, content_type]: size is
\* len(file_content), and bytes its content (for a file too large to write
\* down, a stand-in that is never read).
UploadTry(file, current_user_id, env, db, utcnow) ==
    IF file.filename = <<>>
       \/ \E i \in 1..Len(file.filename) : file.filename[i] \in {"/", "\\"}
    THEN Raise(HTTPException(400, "Invalid filename"))
    ELSE LET filename == LStrip(file.filename, {".", "/", "\\"})
         IN  IF file.size > MaxUploadBytes
             THEN Raise(HTTPException(400, "File size exceeds 10MB limit."))
             ELSE IF file.size = 0
             THEN Raise(HTTPException(400, "Empty file uploaded."))
             ELSE LET extracted == extract_text_from_file(file.bytes, filename, env)
                      extracted_text == extracted.text
                  IN  IF extracted.raised \/ db = "APIError"
                      THEN Raise(APIError)
                      ELSE Return(201,
                             [message |-> "File uploaded successfully",
                              document_id |-> ids.documents,
                              filename |-> filename,
                              extracted_text_length |-> Len(extracted_text),
                              file_size |-> file.size,
                              text_preview |->
                                  IF Len(extracted_text) > PreviewChars
                                  THEN SubSeq(extracted_text, 1, PreviewChars) \o <<".", ".", ".">>
                                  ELSE extracted_text,
                              warning |-> WarningMessage(extracted_text),
                              row |-> [id |-> ids.documents,
                                       user_id |-> current_user_id,
                                       filename |-> filename,
                                       content |-> extracted_text,
                                       file_type |-> IF file.content_type = <<>>
                                                     THEN <<"u", "n", "k", "n", "o", "w", "n">>
                                                     ELSE file.content_type[1],
                                       created_at |-> utcnow]])

upload_file(file, current_user_id, env, db, utcnow) ==
    ExceptException(UploadTry(file, current_user_id, env, db, utcnow))

\* get_documents: content is replaced by its length
DocumentSummary(doc) ==
    [id |-> doc.id, filename |-> doc.filename, file_type |-> doc.file_type,
     created_at |-> doc.created_at, content_length |-> Len(doc.content)]

GetDocumentsTry(docs, current_user_id, db) ==
    IF db = "APIError" THEN Raise(APIError)
    ELSE LET documents_res == OrderByCreatedAtDesc(DocumentsOfUser(docs, current_user_id))
         IN  Return(200, [documents |->
                              [i \in 1..Len(documents_res) |-> DocumentSummary(documents_res[i])]])

get_documents(docs, current_user_id, db) ==
    ExceptException(GetDocumentsTry(docs, current_user_id, db))

\* get_document_content
GetDocumentContentTry(docs, document_id, current_user_id, db) ==
    IF db = "APIError" THEN Raise(APIError)
    ELSE LET doc_res == DocumentByIdOfUser(docs, document_id, current_user_id)
         IN  IF doc_res = {}
             THEN Raise(HTTPException(404, "Document not found"))
             ELSE Return(200, [document |-> CHOOSE d \in doc_res : TRUE])

get_document_content(docs, document_id, current_user_id, db) ==
    ExceptException(GetDocumentContentTry(docs, document_id, current_user_id, db))

\* delete_document: the try block
DeleteDocumentTry(docs, document_id, current_user_id, db) ==
    IF db = "APIError" THEN Raise(APIError)
    ELSE IF DocumentByIdOfUser(docs, document_id, current_user_id) = {}
    THEN Raise(HTTPException(404, "Document not found"))
    ELSE Return(204, [detail |-> "No Content"])

delete_document(docs, document_id, current_user_id, db) ==
    ExceptException(DeleteDocumentTry(docs, document_id, current_user_id, db))

\* the rows delete_document leaves in the table
DocumentsAfterDelete(docs, document_id, current_user_id, db) ==
    IF DeleteDocumentTry(docs, document_id, current_user_id, db).kind = "return"
    THEN docs \ DocumentByIdOfUser(docs, document_id, current_user_id)
    ELSE docs

\* chat: select("id, filename, content")
ChatColumns(doc) ==
    [id |-> doc.id, filename |-> doc.filename, content |-> doc.content]

\* chat: the rows the query of the request matches
ChatDocuments(docs, chatreq, current_user_id) ==
    IF chatreq.use_all_documents
    THEN {ChatColumns(d) : d \in DocumentsOfUser(docs, current_user_id)}
    ELSE IF chatreq.selected_documents # <<>>
    THEN {ChatColumns(d) :
             d \in DocumentsOfUserIn(docs, current_user_id, chatreq.selected_documents)}
    ELSE {}

\* the context with its parts joined by one line break (not what the code does)
BuildContextOneLineBreak(rows) ==
    Join([i \in 1..Len(rows) |->
             <<"-", "-", "-", " ", "D", "o", "c", "u", "m", "e", "n", "t", ":", " ">> \o rows[i].filename \o <<" ", "-", "-", "-", "\n">> \o rows[i].content],
         <<"\n">>)

\* chat: "\n\n".join(context_parts)
BuildContext(rows) ==
    Join([i \in 1..Len(rows) |->
             <<"-", "-", "-", " ", "D", "o", "c", "u", "m", "e", "n", "t", ":", " ">> \o rows[i].filename \o <<" ", "-", "-", "-", "\n">> \o rows[i].content],
         <<"\n", "\n">>)

\* chat: context_sources
ContextSources(rows) ==
    [i \in 1..Len(rows) |-> [id |-> rows[i].id, filename |-> rows[i].filename]]

\* a turn stored without its provenance (not what the code does)
JsonDumpsNothing(value) ==
    [json |-> <<>>]

\* json.dumps(context_sources): the encoded list, which json.loads gives back
JsonDumps(value) ==
    [json |-> value]

JsonLoads(encoded) ==
    encoded.json

\* chat, with rows the matched documents in the order the store returned them
ChatTry(rows, chatreq, current_user_id, llm, db, utcnow) ==
    IF db = "APIError" THEN Raise(APIError)
    ELSE LET context == BuildContext(rows)
             context_sources == ContextSources(rows)
             response_text == generate_response(chatreq.message, context, llm)
         IN  Return(200, [response |-> response_text,
                          context_used |-> context_sources # <<>>,
                          context_sources |-> context_sources,
                          row |-> [id |-> ids.chat_history,
                                   user_id |-> current_user_id,
                                   message |-> chatreq.message,
                                   response |-> response_text,
                                   context_documents |-> JsonDumps(context_sources),
                                   created_at |-> utcnow]])

chat(rows, chatreq, current_user_id, llm, db, utcnow) ==
    ExceptException(ChatTry(rows, chatreq, current_user_id, llm, db, utcnow))

\* .limit(50) of get_chat_history
HistoryLimit ==
    50

\* get_chat_history
GetChatHistoryTry(current_user_id, db) ==
    IF db = "APIError" THEN Raise(APIError)
    ELSE Return(200, [history |->
             Reversed(Limit(OrderByCreatedAtDesc(ChatHistoryOfUser(current_user_id)),
                            HistoryLimit))])

get_chat_history(current_user_id, db) ==
    ExceptException(GetChatHistoryTry(current_user_id, db))

\* guest_extract_text
GuestExtractTextTry(file, env) ==
    LET filename == IF file.filename # <<>> THEN file.filename ELSE <<"u", "p", "l", "o", "a", "d", "e", "d", "_", "f", "i", "l", "e">>
    IN  IF file.size > MaxUploadBytes
        THEN Raise(HTTPException(400, "File size exceeds 10MB limit."))
        ELSE LET extracted == extract_text_from_file(file.bytes, filename, env)
             IN  IF extracted.raised
                 THEN Raise(APIError)
                 ELSE Return(200, [extracted_text |-> extracted.text,
                                   filename |-> filename,
                                   file_size |-> file.size,
                                   extracted_length |-> Len(extracted.text)])

guest_extract_text(file, env) ==
    ExceptException(GuestExtractTextTry(file, env))

\* guest_chat
guest_chat(guestreq, llm) ==
    ExceptException(
        Return(200, [response |-> generate_response(guestreq.message, guestreq.context, llm),
                     context_used |-> guestreq.context # <<>>,
                     context_sources |-> guestreq.context_sources]))

\* what reaches the client of a handler whose body carries the inserted row
WithoutRow(r) ==
    IF r.kind = "return"
    THEN [r EXCEPT !.body = [k \in (DOMAIN r.body) \ {"row"} |-> r.body[k]]]
    ELSE r

(***************************************************************************)
(* Bounds and the inputs the requests are drawn from.                      *)
(***************************************************************************)

MaxUsers ==
    2

MaxDocs ==
    2

MaxTurns ==
    1

\* time passes (Tick) only while the clock stays within MaxTime
MaxTime ==
    20

Emails ==
    {"u1@example.com", "u2@example.com"}

Registrations ==
    {[email |-> e, password |-> "pw", full_name |-> "Name"] : e \in Emails}

Logins ==
    {[email |-> e, password |-> p] : e \in Emails, p \in {"pw", "guess"}}

StoreAnswers ==
    {"ok", "APIError"}

\* an environment in which every library succeeds and filetype finds nothing
QuietEnv ==
    [guess |-> "none", mime |-> MIME_OCTET, pdf |-> "ok", pages |-> <<>>,
     docx |-> "ok", paras |-> <<>>, tables |-> <<>>, utf8 |-> "codec",
     latin1 |-> "ok", vision |-> "ok", answer |-> <<"a", " ", "c", "a", "t">>, err |-> <<"b", "o", "o", "m">>]

\* the environments of the uploads of Spec
UploadEnvs ==
    {QuietEnv}

File(filename, bytes) ==
    [filename |-> filename, size |-> Len(bytes), bytes |-> bytes, content_type |-> <<>>]

\* the files of the uploads of Spec: two good ones and an empty one
UploadFiles ==
    { File(<<"a", ".", "t", "x", "t">>, <<"h", "e", "l", "l", "o", " ", "w", "o", "r", "l", "d">>),
      File(<<"b", ".", "m", "d">>, <<"[", "x", "]">>),
      File(<<"a", ".", "t", "x", "t">>, <<>>) }

\* the files of the uploads of SpecAuth: a good one, one whose name is
\* stripped, and one for each validation failure
AuthUploadFiles ==
    { File(<<"a", ".", "t", "x", "t">>, <<"h", "e", "l", "l", "o", " ", "w", "o", "r", "l", "d">>),
      File(<<".", "a", ".", "t", "x", "t">>, <<"h", "e", "l", "l", "o", " ", "w", "o", "r", "l", "d">>),
      File(<<>>, <<"h", "e", "l", "l", "o", " ", "w", "o", "r", "l", "d">>),
      File(<<"d", "/", "a", ".", "t", "x", "t">>, <<"h", "e", "l", "l", "o", " ", "w", "o", "r", "l", "d">>),
      File(<<"d", "\\", "a", ".", "t", "x", "t">>, <<"h", "e", "l", "l", "o", " ", "w", "o", "r", "l", "d">>),
      File(<<"a", ".", "t", "x", "t">>, <<>>),
      [File(<<"a", ".", "t", "x", "t">>, <<"b", "i", "g">>) EXCEPT !.size = MaxUploadBytes + 1] }

Messages ==
    { <<"q", "?">> }

\* selected_documents: the lists of at most two document ids
Selections ==
    {<<>>} \cup {<<i>> : i \in 1..MaxDocs} \cup {<<i, i + 1>> : i \in 1..MaxDocs}

ChatRequests ==
    {[message |-> m, selected_documents |-> s, use_all_documents |-> a] :
        m \in Messages, s \in Selections, a \in BOOLEAN}

LlmAnswers ==
    {[ok |-> TRUE, text |-> <<"4", "2">>, err |-> <<>>],
     [ok |-> FALSE, text |-> <<>>, err |-> <<"q", "u", "o", "t", "a">>]}

GuestChatRequests ==
    {[message |-> m, context |-> <<"n", "o", "t", "e", "s">>,
      context_sources |-> <<[id |-> 1, filename |-> <<"a", ".", "t", "x", "t">>]>>] : m \in Messages}

\* the files of the guests of Spec
GuestFiles ==
    { File(<<>>, <<"h", "e", "l", "l", "o", " ", "w", "o", "r", "l", "d">>) }

\* the times at which a registered user may have logged in (a login with the
\* right password at time t hands out create_access_token(..., None) of t): now,
\* and the time of registration if that token has expired; a token handed out
\* in between is refused or accepted like one of these two
LoginTimes(u) ==
    {t \in {u.created_at, now} : t = now \/ t + DefaultExpireMinutes <= now}

\* the Authorization header of a request: absent, a token signed with another
\* key, or a token this server handed out to a registered user
BearerTokens ==
    {<<>>}
        \cup {<<[user_id |-> <<1>>, exp |-> now + DefaultExpireMinutes, key |-> "attacker"]>>}
        \cup UNION {{<<create_access_token([user_id |-> <<u.id>>], <<>>, t)>> :
                        t \in LoginTimes(u)} : u \in users}

(***************************************************************************)
(* The operations.  A handler that writes a created_at reads the clock     *)
(* later than every earlier reading (Stamp); the dependency                *)
(* get_current_user_id reads it as it stands.                              *)
(***************************************************************************)

Stamp ==
    now + 1

Init ==
    /\ users = {}
    /\ documents = {}
    /\ chat_history = {}
    /\ ids = [users |-> 1, documents |-> 1, chat_history |-> 1]
    /\ now = 0
    /\ tokens = {}
    /\ req = [op |-> "none"]
    /\ resp = [op |-> "none", user_id |-> 0, status |-> 0, body |-> [detail |-> ""]]

\* time passes
Tick(d) ==
    /\ now + d <= MaxTime
    /\ now' = now + d
    /\ req' = [op |-> "tick"]
    /\ resp' = [op |-> "none", user_id |-> 0, status |-> 0, body |-> [detail |-> ""]]
    /\ UNCHANGED <<users, documents, chat_history, ids, tokens>>

\* a request to a route that depends on get_current_user_id, with a token the
\* dependency refuses: no handler is entered
Unauthenticated ==
    \E token \in BearerTokens :
        LET auth == get_current_user_id(token, now)
        IN  /\ ~auth.ok
            /\ req' = [op |-> "unauthenticated"]
            /\ resp' = RespondUnauthenticated("unauthenticated", auth)
            /\ UNCHANGED <<users, documents, chat_history, ids, now, tokens>>

Register(user, db) ==
    LET r == register(user, db, Stamp)
    IN  /\ ids.users <= MaxUsers
        /\ req' = [op |-> "register", user |-> user]
        /\ resp' = Respond("register", 0, AsTokenResponse(r))
        /\ IF r.kind = "return"
           THEN /\ users' = users \cup {r.body.user}
                /\ ids' = [ids EXCEPT !.users = @ + 1]
                /\ now' = Stamp
           ELSE UNCHANGED <<users, ids, now>>
        /\ UNCHANGED <<documents, chat_history, tokens>>

Login(form_data, db) ==
    /\ req' = [op |-> "login", form_data |-> form_data]
    /\ resp' = Respond("login", 0, AsTokenResponse(login(form_data, db, now)))
    /\ UNCHANGED <<users, documents, chat_history, ids, now, tokens>>

UploadFile(current_user_id, file, env, db) ==
    LET r == upload_file(file, current_user_id, env, db, Stamp)
    IN  /\ ids.documents <= MaxDocs
        /\ req' = [op |-> "upload_file", file |-> file]
        /\ resp' = Respond("upload_file", current_user_id, WithoutRow(r))
        /\ IF r.kind = "return"
           THEN /\ documents' = documents \cup {r.body.row}
                /\ ids' = [ids EXCEPT !.documents = @ + 1]
                /\ now' = Stamp
           ELSE UNCHANGED <<documents, ids, now>>
        /\ UNCHANGED <<users, chat_history, tokens>>

Upload(files, dbs) ==
    \E token \in BearerTokens :
        LET auth == get_current_user_id(token, now)
        IN  /\ auth.ok
            /\ \E file \in files, env \in UploadEnvs, db \in dbs :
                      UploadFile(auth.user_id, file, env, db)

GetDocuments(dbs) ==
    \E token \in BearerTokens :
        LET auth == get_current_user_id(token, now)
        IN  /\ auth.ok
            /\ \E db \in dbs :
                      /\ req' = [op |-> "get_documents"]
                      /\ resp' = Respond("get_documents", auth.user_id,
                                         get_documents(documents, auth.user_id, db))
                      /\ UNCHANGED <<users, documents, chat_history, ids, now, tokens>>

GetDocumentContent(dbs) ==
    \E token \in BearerTokens :
        LET auth == get_current_user_id(token, now)
        IN  /\ auth.ok
            /\ \E document_id \in 1..MaxDocs, db \in dbs :
                      /\ req' = [op |-> "get_document_content", document_id |-> document_id]
                      /\ resp' = Respond("get_document_content", auth.user_id,
                                         get_document_content(documents, document_id,
                                                              auth.user_id, db))
                      /\ UNCHANGED <<users, documents, chat_history, ids, now, tokens>>

DeleteDocument(dbs) ==
    \E token \in BearerTokens :
        LET auth == get_current_user_id(token, now)
        IN  /\ auth.ok
            /\ \E document_id \in 1..MaxDocs, db \in dbs :
                      /\ req' = [op |-> "delete_document", document_id |-> document_id]
                      /\ resp' = Respond("delete_document", auth.user_id,
                                         delete_document(documents, document_id,
                                                         auth.user_id, db))
                      /\ documents' = DocumentsAfterDelete(documents, document_id,
                                                           auth.user_id, db)
                      /\ UNCHANGED <<users, chat_history, ids, now, tokens>>

\* the response of chat, with the context the handler gave the model
RespondChat(user_id, r, rows) ==
    [op |-> "chat", user_id |-> user_id,
     status |-> Respond("chat", user_id, r).status,
     body |-> Respond("chat", user_id, r).body,
     context |-> IF r.kind = "return" THEN BuildContext(rows) ELSE <<>>]

ChatHandler(current_user_id, chatreq, rows, llm, db, maxTurns) ==
    LET r == chat(rows, chatreq, current_user_id, llm, db, Stamp)
    IN  /\ ids.chat_history <= maxTurns
        /\ req' = [op |-> "chat", chatreq |-> chatreq, rows |-> rows]
        /\ resp' = RespondChat(current_user_id, WithoutRow(r), rows)
        /\ IF r.kind = "return"
           THEN /\ chat_history' = chat_history \cup {r.body.row}
                /\ ids' = [ids EXCEPT !.chat_history = @ + 1]
                /\ now' = Stamp
           ELSE UNCHANGED <<chat_history, ids, now>>
        /\ UNCHANGED <<users, documents, tokens>>

Chat(maxTurns, dbs, chatreqs, llms) ==
    \E token \in BearerTokens :
        LET auth == get_current_user_id(token, now)
        IN  /\ auth.ok
            /\ \E chatreq \in chatreqs, llm \in llms, db \in dbs :
                      \E rows \in Orderings(ChatDocuments(documents, chatreq, auth.user_id)) :
                          ChatHandler(auth.user_id, chatreq, rows, llm, db, maxTurns)

GetChatHistory(dbs) ==
    \E token \in BearerTokens :
        LET auth == get_current_user_id(token, now)
        IN  /\ auth.ok
            /\ \E db \in dbs :
                      /\ req' = [op |-> "get_chat_history"]
                      /\ resp' = Respond("get_chat_history", auth.user_id,
                                         get_chat_history(auth.user_id, db))
                      /\ UNCHANGED <<users, documents, chat_history, ids, now, tokens>>

GuestExtractText(file, env) ==
    /\ req' = [op |-> "guest_extract_text", file |-> file]
    /\ resp' = Respond("guest_extract_text", 0, guest_extract_text(file, env))
    /\ UNCHANGED <<users, documents, chat_history, ids, now, tokens>>

GuestChat(guestreq, llm) ==
    /\ req' = [op |-> "guest_chat", guestreq |-> guestreq]
    /\ resp' = Respond("guest_chat", 0, guest_chat(guestreq, llm))
    /\ UNCHANGED <<users, documents, chat_history, ids, now, tokens>>

\* the documents and the chat: every operation that reads or writes them
Next ==
    \/ Unauthenticated
    \/ \E user \in Registrations : Register(user, "ok")
    \/ Upload(UploadFiles, {"ok"})
    \/ GetDocuments({"ok"})
    \/ GetDocumentContent({"ok"})
    \/ DeleteDocument({"ok"})
    \/ Chat(MaxTurns, {"ok"}, ChatRequests, LlmAnswers)
    \/ GetChatHistory({"ok"})
    \/ \E file \in GuestFiles, env \in UploadEnvs : GuestExtractText(file, env)
    \/ \E guestreq \in GuestChatRequests, llm \in LlmAnswers : GuestChat(guestreq, llm)

Spec ==
    Init /\ [][Next]_vars

\* the requests and their errors, with a store that may fail and time passing
\* so that tokens expire
NextAuth ==
    \/ Tick(DefaultExpireMinutes)
    \/ Unauthenticated
    \/ \E user \in Registrations, db \in StoreAnswers : Register(user, db)
    \/ \E form_data \in Logins, db \in StoreAnswers : Login(form_data, db)
    \/ Upload(AuthUploadFiles, StoreAnswers)
    \/ GetDocumentContent(StoreAnswers)
    \/ DeleteDocument(StoreAnswers)

SpecAuth ==
    Init /\ [][NextAuth]_vars

(***************************************************************************)
(* SpecToken: create_access_token and get_current_user_id on their own.    *)
(* tokens holds every token handed out, with the time and the              *)
(* expires_delta of the call that made it.                                 *)
(***************************************************************************)

MaxTokens ==
    1

\* ACCESS_TOKEN_EXPIRE_MINUTES
AccessTokenExpireMinutes ==
    30

\* the expires_delta of a call: none, or a timedelta in ticks
ExpiresDeltas ==
    {<<>>, <<0>>, <<1>>, <<AccessTokenExpireMinutes>>}

IssueToken(user_id, expires_delta) ==
    LET token == create_access_token([user_id |-> <<user_id>>], expires_delta, now)
    IN  /\ Cardinality(tokens) < MaxTokens
        /\ tokens' = tokens \cup {[token |-> token, issued_at |-> now,
                                   expires_delta |-> expires_delta]}
        /\ req' = [op |-> "create_access_token", expires_delta |-> expires_delta]
        /\ resp' = [op |-> "create_access_token", user_id |-> user_id, status |-> 200,
                    body |-> [access_token |-> token]]
        /\ UNCHANGED <<users, documents, chat_history, ids, now>>

\* a request with a token that was handed out, or with the same token signed
\* with another key
VerifyToken(entry, key) ==
    LET token == [entry.token EXCEPT !.key = key]
        auth == get_current_user_id(<<token>>, now)
    IN  /\ req' = [op |-> "get_current_user_id", entry |-> entry, key |-> key]
        /\ resp' = IF auth.ok
                   THEN [op |-> "get_current_user_id", user_id |-> auth.user_id,
                         status |-> 200, body |-> [detail |-> ""]]
                   ELSE RespondUnauthenticated("get_current_user_id", auth)
        /\ UNCHANGED <<users, documents, chat_history, ids, now, tokens>>

NextToken ==
    \/ \E d \in {1, DefaultExpireMinutes} : Tick(d)
    \/ \E user_id \in 1..MaxUsers, expires_delta \in ExpiresDeltas :
           IssueToken(user_id, expires_delta)
    \/ \E entry \in tokens, key \in {"SECRET_KEY", "attacker"} : VerifyToken(entry, key)

SpecToken ==
    Init /\ [][NextToken]_vars

(***************************************************************************)
(* SpecExtract: extract_text_from_file on its own, over files and          *)
(* environments that reach every branch and every failure.                 *)
(***************************************************************************)

ExtractFilenames ==
    { <<"a", ".", "p", "d", "f">>, <<"A", ".", "P", "D", "F">>, <<"a", ".", "d", "o", "c", "x">>, <<"a", ".", "d", "o", "c">>, <<"a", ".", "t", "x", "t">>, <<"a", ".", "p", "n", "g">>, <<"a", ".", "x", "y", "z">>, <<"a">> }

ExtractContents ==
    { <<"h", "e", "l", "l", "o", " ", "w", "o", "r", "l", "d">>, <<"h", BadByte>> }

\* what filetype.guess does: raise, find nothing, or find one of these types
SniffOutcomes ==
    {[guess |-> "raise", mime |-> MIME_OCTET], [guess |-> "none", mime |-> MIME_OCTET]}
        \cup {[guess |-> "kind", mime |-> m] :
                 m \in {MIME_PDF, MIME_DOCX, MIME_TEXT, MIME_PNG, MIME_ZIP}}

ExtractEnvs ==
    {[guess |-> s.guess, mime |-> s.mime,
      pdf |-> pdf, pages |-> << <<"H", "e", "l", "l", "o">>, <<" ">>, <<"W", "o", "r", "l", "d">> >>,
      docx |-> docx, paras |-> << <<"H", "e", "l", "l", "o">>, <<>>, <<"W", "o", "r", "l", "d">> >>,
      tables |-> << << << <<"C", "e", "l", "l", "1">> >> >> >>,
      utf8 |-> utf8, latin1 |-> latin1,
      vision |-> vision, answer |-> <<"a", " ", "c", "a", "t">>, err |-> <<"b", "o", "o", "m">>] :
        s \in SniffOutcomes, pdf \in {"ok", "fail"}, docx \in {"ok", "fail"},
        utf8 \in {"codec", "Exception"}, latin1 \in {"ok", "fail"},
        vision \in {"ok", "fail"}}

InitExtract ==
    /\ users = {}
    /\ documents = {}
    /\ chat_history = {}
    /\ ids = [users |-> 1, documents |-> 1, chat_history |-> 1]
    /\ now = 0
    /\ tokens = {}
    /\ req \in {[op |-> "extract_text_from_file", file_content |-> c, filename |-> f,
                 env |-> e] : c \in ExtractContents, f \in ExtractFilenames, e \in ExtractEnvs}
    /\ resp = [op |-> "none", user_id |-> 0, status |-> 0, body |-> [detail |-> ""]]

ExtractTextFromFile ==
    /\ resp.op = "none"
    /\ resp' = [op |-> "extract_text_from_file", user_id |-> 0, status |-> 0,
                body |-> extract_text_from_file(req.file_content, req.filename, req.env)]
    /\ UNCHANGED <<users, documents, chat_history, ids, now, tokens, req>>

NextExtract ==
    ExtractTextFromFile

SpecExtract ==
    InitExtract /\ [][NextExtract]_vars

(***************************************************************************)
(* SpecHistory: long chat histories.  It starts from the state two         *)
(* registrations leave (Register of u1, then of u2); the first user chats  *)
(* up to HistoryTurns times in all, any other user at most OtherTurns      *)
(* times (OtherMayChat).                                                   *)
(***************************************************************************)

HistoryTurns ==
    52

OtherTurns ==
    1

HistoryChatRequests ==
    {[message |-> m, selected_documents |-> <<>>, use_all_documents |-> FALSE] : m \in Messages}

HistoryLlmAnswers ==
    {[ok |-> TRUE, text |-> <<"4", "2">>, err |-> <<>>]}

InitHistory ==
    /\ users = {[id |-> 1, email |-> "u1@example.com",
                 password_hash |-> hash_password("pw"), full_name |-> "Name",
                 created_at |-> 1],
                [id |-> 2, email |-> "u2@example.com",
                 password_hash |-> hash_password("pw"), full_name |-> "Name",
                 created_at |-> 2]}
    /\ documents = {}
    /\ chat_history = {}
    /\ ids = [users |-> 3, documents |-> 1, chat_history |-> 1]
    /\ now = 2
    /\ tokens = {}
    /\ req = [op |-> "none"]
    /\ resp = [op |-> "none", user_id |-> 0, status |-> 0, body |-> [detail |-> ""]]

\* another user chats while the first user's history is short, or as long as
\* the limit
OtherMayChat ==
    \/ Cardinality(ChatHistoryOfUser(1)) <= 1
    \/ Cardinality(ChatHistoryOfUser(1)) >= HistoryLimit - 1

ChatWithinQuota ==
    /\ Chat(HistoryTurns, {"ok"}, HistoryChatRequests, HistoryLlmAnswers)
    /\ resp'.user_id # 1 => OtherMayChat
    /\ \A u \in users :
           u.id # 1 => Cardinality({t \in chat_history' : t.user_id = u.id}) <= OtherTurns

NextHistory ==
    \/ ChatWithinQuota
    \/ GetChatHistory({"ok"})

SpecHistory ==
    InitHistory /\ [][NextHistory]_vars

(***************************************************************************)
(* SpecTurns: chats that follow one another while documents come and go    *)
(* and the store may fail.  It starts from the state two registrations     *)
(* leave (InitHistory); at most ChatTurns turns are stored.                *)
(***************************************************************************)

ChatTurns ==
    2

TurnsFiles ==
    { File(<<"a", ".", "t", "x", "t">>, <<"h", "e", "l", "l", "o", " ", "w", "o", "r", "l", "d">>) }

TurnsChatRequests ==
    {[message |-> m, selected_documents |-> s, use_all_documents |-> a] :
        m \in Messages, s \in {<<1>>, <<2, 1>>}, a \in BOOLEAN}

NextTurns ==
    \/ Upload(TurnsFiles, {"ok"})
    \/ DeleteDocument({"ok"})
    \/ Chat(ChatTurns, StoreAnswers, TurnsChatRequests, HistoryLlmAnswers)
    \/ \E file \in GuestFiles, env \in UploadEnvs : GuestExtractText(file, env)
    \/ \E guestreq \in GuestChatRequests, llm \in LlmAnswers : GuestChat(guestreq, llm)

SpecTurns ==
    InitHistory /\ [][NextTurns]_vars

(***************************************************************************)
(* The claims.                                                             *)
(***************************************************************************)

\* the documents of the store that user_id owns, as chat selects them
OwnChatRows(user_id) ==
    {ChatColumns(d) : d \in DocumentsOfUser(documents, user_id)}

\* C1: every document an operation returns to requester U, or uses for U (a
\* full record, a summary, a provenance entry, the content in the chat
\* context), is a document of the store whose user_id is U.
C1_OnlyOwnDocuments ==
    /\ resp.op = "get_documents" /\ resp.status = 200 =>
           \A i \in 1..Len(resp.body.documents) :
               \E d \in documents : /\ d.user_id = resp.user_id
                                    /\ resp.body.documents[i] = DocumentSummary(d)
    /\ resp.op = "get_document_content" /\ resp.status = 200 =>
           /\ resp.body.document \in documents
           /\ resp.body.document.user_id = resp.user_id
    /\ resp.op = "upload_file" /\ resp.status = 201 =>
           \E d \in documents : d.id = resp.body.document_id /\ d.user_id = resp.user_id
    /\ resp.op = "chat" /\ resp.status = 200 =>
           /\ \A i \in 1..Len(resp.body.context_sources) :
                  \E d \in documents :
                      /\ d.user_id = resp.user_id
                      /\ resp.body.context_sources[i] = [id |-> d.id, filename |-> d.filename]
           /\ \A i \in 1..Len(req.rows) : req.rows[i] \in OwnChatRows(resp.user_id)
           /\ \A d \in documents :
                  d.user_id # resp.user_id =>
                      \A i \in 1..Len(req.rows) : req.rows[i].id # d.id

\* C1, witness: a user is given a document of theirs while the store holds a
\* document of another user
C1_Witness ==
    /\ resp.op = "get_document_content"
    /\ resp.status = 200
    /\ \E d \in documents : d.user_id # resp.user_id

\* the chat request names the id of a document that another user owns
ForeignSelected ==
    /\ req.op = "chat"
    /\ \E i \in 1..Len(req.chatreq.selected_documents) :
           \E d \in documents : /\ d.id = req.chatreq.selected_documents[i]
                                /\ d.user_id # resp.user_id

\* the requester's own documents that the chat request asks for
OwnRequested ==
    {d \in documents :
        /\ d.user_id = resp.user_id
        /\ \/ req.chatreq.use_all_documents
           \/ \E i \in 1..Len(req.chatreq.selected_documents) :
                  req.chatreq.selected_documents[i] = d.id}

\* C3 as stated: a chat that names another user's document id ends not-found
\* and gives no answer (whenever the store itself has not failed)
C3_ForeignSelectionNotFound ==
    (ForeignSelected /\ resp.status # 500) => resp.status = 404

\* C3, amended: a chat that names another user's document id never ends
\* not-found; unless a store call fails (internal error), it is answered, and
\* the answer's provenance holds exactly the requester's own documents among
\* those asked for: the other user's document is left out without notice, and
\* context_used is false when nothing else was asked for.
C3_ForeignSelectionIgnored ==
    ForeignSelected =>
        /\ resp.status \in {200, 500}
        /\ resp.status = 500 => resp.body.detail = APIError
        /\ resp.status = 200 =>
               /\ {resp.body.context_sources[i].id :
                       i \in 1..Len(resp.body.context_sources)}
                      = {d.id : d \in OwnRequested}
               /\ Len(resp.body.context_sources) = Cardinality(OwnRequested)
               /\ resp.body.context_used = (OwnRequested # {})

\* C3, witness: a chat that names a document of the requester and one of
\* another user, answered from the first alone
C3_Witness ==
    /\ ForeignSelected
    /\ ~req.chatreq.use_all_documents
    /\ Len(req.chatreq.selected_documents) = 2
    /\ resp.status = 200
    /\ Len(resp.body.context_sources) = 1

\* the documents of the store that user_id does not own
ForeignDocuments(docs, user_id) ==
    {d \in docs : d.user_id # user_id}

\* C4: what getDocument and deleteDocument answer to U does not depend on the
\* documents U does not own (the answer is the same with any of them removed,
\* so a foreign id is answered like an unknown id), and deleteDocument by U
\* leaves every document of another user in place.
C4_NoExistenceLeak ==
    /\ \A u \in 1..MaxUsers, document_id \in 1..MaxDocs :
           \A gone \in SUBSET ForeignDocuments(documents, u) :
               /\ get_document_content(documents \ gone, document_id, u, "ok")
                      = get_document_content(documents, document_id, u, "ok")
               /\ delete_document(documents \ gone, document_id, u, "ok")
                      = delete_document(documents, document_id, u, "ok")
               /\ ForeignDocuments(DocumentsAfterDelete(documents, document_id, u, "ok"), u)
                      = ForeignDocuments(documents, u)
    /\ resp.op = "get_document_content" =>
           resp = Respond("get_document_content", resp.user_id,
                          get_document_content(DocumentsOfUser(documents, resp.user_id),
                                               req.document_id, resp.user_id, "ok"))

\* C4, witness: a user asked to delete a document that another user owns
C4_Witness ==
    /\ req.op = "delete_document"
    /\ resp.status = 500
    /\ \E d \in documents : d.id = req.document_id /\ d.user_id # resp.user_id

\* C7: no step removes or changes a chat turn; a chat that returns an answer
\* adds exactly one turn, with the requester, the question, the answer and the
\* provenance list returned; every other step leaves the history as it is.
C7_ChatHistoryAppendOnly ==
    [][/\ chat_history \subseteq chat_history'
       /\ IF resp'.op = "chat" /\ resp'.status = 200
          THEN \E t \in chat_history' \ chat_history :
                   /\ chat_history' = chat_history \cup {t}
                   /\ t.user_id = resp'.user_id
                   /\ t.message = req'.chatreq.message
                   /\ t.response = resp'.body.response
                   /\ JsonLoads(t.context_documents) = resp'.body.context_sources
          ELSE chat_history' = chat_history]_vars

\* C7, witness: two turns, one with a provenance that names a document
\* deleted since, after a guest request
C7_Witness ==
    /\ resp.op \in {"guest_chat", "guest_extract_text"}
    /\ Cardinality(chat_history) = 2
    /\ \E t \in chat_history :
           /\ JsonLoads(t.context_documents) # <<>>
           /\ \A i \in 1..Len(JsonLoads(t.context_documents)) :
                  \A d \in documents : d.id # JsonLoads(t.context_documents)[i].id

\* the text C9 gives the i-th record
DocumentBlock(row) ==
    <<"-", "-", "-", " ", "D", "o", "c", "u", "m", "e", "n", "t", ":", " ">> \o row.filename \o <<" ", "-", "-", "-">> \o <<"\n">> \o row.content

\* where the i-th record's text starts in the context
RECURSIVE BlockStart(_, _)
BlockStart(rows, i) ==
    IF i = 1 THEN 1 ELSE BlockStart(rows, i - 1) + Len(DocumentBlock(rows[i - 1])) + 2

\* C9: the context holds, for each record in order, the header line and the
\* full content, with a blank line between records and nothing else; the
\* provenance list is as long as the input and names its records in order;
\* context_used says whether the provenance list is non-empty.
C9_ContextAssembly ==
    resp.op = "chat" /\ resp.status = 200 =>
        LET rows == req.rows
            n == Len(rows)
            text == resp.context
            sources == resp.body.context_sources
        IN  /\ Len(sources) = n
            /\ \A i \in 1..n : sources[i] = [id |-> rows[i].id, filename |-> rows[i].filename]
            /\ resp.body.context_used = (Len(sources) > 0)
            /\ Len(text) = IF n = 0 THEN 0
                           ELSE BlockStart(rows, n) + Len(DocumentBlock(rows[n])) - 1
            /\ \A i \in 1..n :
                   SubSeq(text, BlockStart(rows, i),
                          BlockStart(rows, i) + Len(DocumentBlock(rows[i])) - 1)
                       = DocumentBlock(rows[i])
            /\ \A i \in 2..n :
                   SubSeq(text, BlockStart(rows, i) - 2, BlockStart(rows, i) - 1)
                       = <<"\n", "\n">>

\* C9, witness: a chat over two documents with different names
C9_Witness ==
    /\ resp.op = "chat"
    /\ resp.status = 200
    /\ Len(req.rows) = 2
    /\ req.rows[1].filename # req.rows[2].filename

\* C2 as stated: a failure the handler detects itself (an HTTPException with a
\* 400, 401 or 404 code) never reaches the client as an internal error
C2_ValidationErrorsKeepCategory ==
    resp.status = 500 => resp.body.detail.type # "HTTPException"

\* C5 as stated: a token's expiry is its issue time plus the expires_delta
\* passed (the default only when none is passed), and a token issued with
\* expires_delta 0 is refused as expired whenever it is verified
C5_ExpiryIsIssueTimePlusDelta ==
    /\ \A e \in tokens :
           e.token.exp = e.issued_at + (IF e.expires_delta = <<>>
                                        THEN DefaultExpireMinutes
                                        ELSE e.expires_delta[1])
    /\ (/\ resp.op = "get_current_user_id"
        /\ req.key = "SECRET_KEY"
        /\ req.entry.expires_delta = <<0>>)
           => (resp.status = 401 /\ resp.body.detail = "Token has expired")

\* a library that extract_text_from_file called has failed
LibraryFailed ==
    \/ req.env.guess = "raise"
    \/ resp.body.branch = "pdf" /\ req.env.pdf = "fail"
    \/ resp.body.branch = "docx" /\ req.env.docx = "fail"
    \/ resp.body.branch = "text" /\ req.env.utf8 = "Exception"
    \/ resp.body.branch = "text" /\ ~Utf8Valid(req.file_content) /\ req.env.latin1 = "fail"
    \/ resp.body.branch = "image" /\ req.env.vision = "fail"

\* C6: extract_text_from_file returns a text, whatever the libraries do, and
\* the text begins with "[" whenever a library it called has failed.
C6_ExtractNeverRaises ==
    resp.op = "extract_text_from_file" =>
        /\ ~resp.body.raised
        /\ LibraryFailed => resp.body.text # <<>> /\ Head(resp.body.text) = "["

\* C6, witness: the Latin-1 fallback itself failed, inside the handler of the
\* UnicodeDecodeError
C6_Witness ==
    /\ resp.op = "extract_text_from_file"
    /\ resp.body.branch = "text"
    /\ ~Utf8Valid(req.file_content)
    /\ req.env.utf8 = "codec"
    /\ req.env.latin1 = "fail"

\* the format a sniffed type points to
SniffedFormat(file_type) ==
    IF file_type = MIME_PDF THEN "pdf"
    ELSE IF file_type = MIME_DOCX THEN "docx"
    ELSE IF Len(file_type) >= 5 /\ SubSeq(file_type, 1, 5) = <<"t", "e", "x", "t", "/">> THEN "text"
    ELSE IF Len(file_type) >= 6 /\ SubSeq(file_type, 1, 6) = <<"i", "m", "a", "g", "e", "/">> THEN "image"
    ELSE "unsupported"

\* the format an extension points to
ExtensionFormat(file_extension) ==
    IF file_extension = <<"p", "d", "f">> THEN "pdf"
    ELSE IF file_extension = <<"d", "o", "c", "x">> THEN "docx"
    ELSE IF file_extension = <<"d", "o", "c">> THEN "doc"
    ELSE IF file_extension \in TextExtensions THEN "text"
    ELSE IF file_extension \in ImageExtensions THEN "image"
    ELSE "unsupported"

\* the branches in the order the function tests them
BranchRank(branch) ==
    CASE branch = "pdf" -> 1 [] branch = "docx" -> 2 [] branch = "doc" -> 3
      [] branch = "text" -> 4 [] branch = "image" -> 5 [] branch = "unsupported" -> 6

\* C10 as stated: when the sniffed type points to a format, that format's
\* branch is taken, whatever the extension
C10_SniffedTypeWins ==
    (/\ resp.op = "extract_text_from_file"
     /\ req.env.guess # "raise"
     /\ SniffedFormat(FileTypeOf(req.env)) # "unsupported")
        => resp.body.branch = SniffedFormat(FileTypeOf(req.env))

\* C10, amended: exactly one branch is taken, and it is, of the format the
\* sniffed type points to and the format the extension points to, the one
\* that comes first in the order PDF, modern word-processor, legacy .doc,
\* plain-text-like, image, unsupported.
C10_EarlierBranchWins ==
    (resp.op = "extract_text_from_file" /\ req.env.guess # "raise") =>
        LET bySniff == SniffedFormat(FileTypeOf(req.env))
            byName == ExtensionFormat(FileExtension(req.filename))
        IN  /\ resp.body.branch \in {bySniff, byName}
            /\ BranchRank(resp.body.branch) <= BranchRank(bySniff)
            /\ BranchRank(resp.body.branch) <= BranchRank(byName)

\* C10, witness: bytes sniffed as an image under a name ending in .txt
C10_Witness ==
    /\ resp.op = "extract_text_from_file"
    /\ req.env.guess = "kind"
    /\ req.env.mime = MIME_PNG
    /\ FileExtension(req.filename) = <<"t", "x", "t">>
    /\ resp.body.branch = "text"

\* C8: chatHistory gives U turns of U only, at most HistoryLimit of them,
\* oldest first in the order they were created (ids are serial); the turns
\* left out are older than every turn given, and the last turn given is U's
\* latest.
C8_HistoryLatestOldestFirst ==
    resp.op = "get_chat_history" /\ resp.status = 200 =>
        LET h == resp.body.history
            mine == {t \in chat_history : t.user_id = resp.user_id}
        IN  /\ \A i \in 1..Len(h) : h[i] \in mine
            /\ Len(h) <= HistoryLimit
            /\ Len(h) = IF Cardinality(mine) > HistoryLimit
                        THEN HistoryLimit ELSE Cardinality(mine)
            /\ \A i \in 1..Len(h) : \A j \in 1..Len(h) : i < j => h[i].id < h[j].id
            /\ \A t \in mine :
                   (\A i \in 1..Len(h) : h[i] # t) => \A i \in 1..Len(h) : t.id < h[i].id
            /\ mine # {} => \A t \in mine : t.id <= h[Len(h)].id

\* C8, witness: a history cut to the limit, with another user's turn in the
\* store
C8_Witness ==
    /\ resp.op = "get_chat_history"
    /\ resp.status = 200
    /\ Len(resp.body.history) = HistoryLimit
    /\ Cardinality({t \in chat_history : t.user_id = resp.user_id}) > HistoryLimit
    /\ \E t \in chat_history : t.user_id # resp.user_id

(***************************************************************************)
(* SpecRegister: registrations served at the same time (by several server  *)
(* processes over the one store).  register makes two store calls, the     *)
(* select by email and the insert; req.calls holds, for each request in    *)
(* service, how far it has come.                                           *)
(***************************************************************************)

\* the register requests in service at one time
MaxCalls ==
    3

RegisterCalls ==
    1..MaxCalls

\* requests are taken in while the inserts made and pending number at most
\* MaxInserts
MaxInserts ==
    3

\* a slot with no request in it
NoCall ==
    [pc |-> "idle", user |-> [email |-> "", password |-> "", full_name |-> ""]]

\* the requests that have made their select and not yet their insert
CallsInService ==
    {c \in RegisterCalls : req.calls[c].pc = "insert"}

InitRegister ==
    /\ users = {}
    /\ documents = {}
    /\ chat_history = {}
    /\ ids = [users |-> 1, documents |-> 1, chat_history |-> 1]
    /\ now = 0
    /\ tokens = {}
    /\ req = [op |-> "register", calls |-> [c \in RegisterCalls |-> NoCall]]
    /\ resp = [op |-> "none", user_id |-> 0, status |-> 0, body |-> [detail |-> ""]]

\* register, up to the insert: the select by email and the test of its result
RegisterSelectTry(user, db) ==
    IF db = "APIError" THEN Raise(APIError)
    ELSE IF UsersByEmail(user.email) # {}
    THEN Raise(HTTPException(400, "Email already registered"))
    ELSE Return(0, [detail |-> "insert"])

\* register, from the insert on: the store gives the row its id
RegisterInsertTry(user, db, utcnow) ==
    LET user_data == [id |-> ids.users, email |-> user.email,
                      password_hash |-> hash_password(user.password),
                      full_name |-> user.full_name, created_at |-> utcnow]
    IN  IF db = "APIError" THEN Raise(APIError)
        ELSE Return(201, [access_token |-> create_access_token(
                                               [user_id |-> <<user_data.id>>], <<>>, utcnow),
                          token_type |-> "bearer",
                          user |-> user_data])

\* a register request arrives and makes its select; when the email is taken
\* it is answered at once
RegisterSelect(c, user, db) ==
    LET r == ExceptException(RegisterSelectTry(user, db))
    IN  /\ req.calls[c].pc = "idle"
        /\ ids.users + Cardinality(CallsInService) <= MaxInserts
        /\ IF r.kind = "raise"
           THEN /\ resp' = Respond("register", 0, r)
                /\ req' = req
           ELSE /\ req' = [req EXCEPT !.calls[c] = [pc |-> "insert", user |-> user]]
                /\ resp' = resp
        /\ UNCHANGED <<users, documents, chat_history, ids, now, tokens>>

\* the request makes its insert and is answered
RegisterInsert(c, db) ==
    LET r == ExceptException(RegisterInsertTry(req.calls[c].user, db, Stamp))
    IN  /\ req.calls[c].pc = "insert"
        /\ IF r.kind = "return"
           THEN /\ users' = users \cup {r.body.user}
                /\ ids' = [ids EXCEPT !.users = @ + 1]
                /\ now' = Stamp
           ELSE UNCHANGED <<users, ids, now>>
        /\ req' = [req EXCEPT !.calls[c] = NoCall]
        /\ resp' = Respond("register", 0, AsTokenResponse(r))
        /\ UNCHANGED <<documents, chat_history, tokens>>

NextRegister ==
    \/ \E c \in RegisterCalls, user \in Registrations, db \in StoreAnswers :
           RegisterSelect(c, user, db)
    \/ \E c \in RegisterCalls, db \in StoreAnswers : RegisterInsert(c, db)

SpecRegister ==
    InitRegister /\ [][NextRegister]_vars

\* C11 as stated: under any interleaving of register requests, no two users
\* of the store have the same email (so a registration for an email already
\* registered creates no user)
C11_EmailsUnique ==
    \A u \in users : \A v \in users : u.email = v.email => u = v

(***************************************************************************)
(* SpecUpload: uploads of files of every kind while the libraries that     *)
(* extract_text_from_file calls work or fail.  It starts from the state    *)
(* two registrations leave (InitHistory).                                  *)
(***************************************************************************)

\* an environment in which every library works and finds text
WorkingEnv ==
    [QuietEnv EXCEPT !.pages = << <<"H", "e", "l", "l", "o">>, <<" ">>, <<"W", "o", "r", "l", "d">> >>,
                     !.paras = << <<"H", "e", "l", "l", "o", " ", "w", "o", "r", "l", "d">> >>]

\* every library working (with and without text found), and one failure each
SoftFailureEnvs ==
    { WorkingEnv,
      QuietEnv,
      [WorkingEnv EXCEPT !.guess = "raise"],
      [WorkingEnv EXCEPT !.guess = "kind", !.mime = MIME_PNG],
      [WorkingEnv EXCEPT !.pdf = "fail"],
      [WorkingEnv EXCEPT !.docx = "fail"],
      [WorkingEnv EXCEPT !.utf8 = "Exception"],
      [WorkingEnv EXCEPT !.vision = "fail"] }

\* a file of every kind, and a text file of fewer than 10 characters
SoftFailureFiles ==
    {File(n, <<"h", "e", "l", "l", "o", " ", "w", "o", "r", "l", "d">>) :
         n \in { <<"a", ".", "p", "d", "f">>, <<"a", ".", "d", "o", "c", "x">>, <<"a", ".", "d", "o", "c">>, <<"a", ".", "t", "x", "t">>, <<"a", ".", "p", "n", "g">>, <<"a", ".", "x", "y", "z">> }}
        \cup { File(<<"a", ".", "t", "x", "t">>, <<"h", "i">>) }

\* POST /upload, with the environment of the extraction among envs
UploadIn(files, envs, dbs) ==
    \E token \in BearerTokens :
        LET auth == get_current_user_id(token, now)
        IN  /\ auth.ok
            /\ \E file \in files, env \in envs, db \in dbs :
                      UploadFile(auth.user_id, file, env, db)

NextUpload ==
    \/ UploadIn(SoftFailureFiles, SoftFailureEnvs, StoreAnswers)
    \/ GetDocumentContent({"ok"})

SpecUpload ==
    InitHistory /\ [][NextUpload]_vars

\* text holds part somewhere
Contains(text, part) ==
    \E i \in 1..(Len(text) - Len(part) + 1) : SubSeq(text, i, i + Len(part) - 1) = part

\* the bracketed diagnostics of extract_text_from_file: those C12 lists, and
\* the error of the text branch
BracketedDiagnostic(text) ==
    \/ StartsWith(text, <<"[", "E", "r", "r", "o", "r", " ", "r", "e", "a", "d", "i", "n", "g", " ", "P", "D", "F", ":", " ">>)
    \/ StartsWith(text, <<"[", "E", "r", "r", "o", "r", " ", "r", "e", "a", "d", "i", "n", "g", " ", "W", "o", "r", "d", " ", "d", "o", "c", "u", "m", "e", "n", "t", ":", " ">>)
    \/ StartsWith(text, <<"[", "E", "r", "r", "o", "r", " ", "r", "e", "a", "d", "i", "n", "g", " ", "t", "e", "x", "t", " ", "f", "i", "l", "e", ":", " ">>)
    \/ StartsWith(text, <<"[", "L", "e", "g", "a", "c", "y", " ", "W", "o", "r", "d", " ", "d", "o", "c", "u", "m", "e", "n", "t", " ", "(", ".", "d", "o", "c", ")", " ", "d", "e", "t", "e", "c", "t", "e", "d", ".">>)
    \/ /\ StartsWith(text, <<"[", "I", "m", "a", "g", "e", " ", "c", "o", "n", "t", "e", "n", "t", " ", "f", "r", "o", "m", " ">>)
       /\ Contains(text, <<" ", "-", " ", "V", "i", "s", "i", "o", "n", " ", "p", "r", "o", "c", "e", "s", "s", "i", "n", "g", " ", "e", "r", "r", "o", "r", ":", " ">>)
    \/ StartsWith(text, <<"[", "U", "n", "s", "u", "p", "p", "o", "r", "t", "e", "d", " ", "f", "i", "l", "e", " ", "t", "y", "p", "e", ":", " ">>)
    \/ StartsWith(text, <<"[", "E", "r", "r", "o", "r", " ", "e", "x", "t", "r", "a", "c", "t", "i", "n", "g", " ", "t", "e", "x", "t", " ", "f", "r", "o", "m", " ">>)

\* C12 as stated: an upload that is stored returns a warning exactly when the
\* extracted text is one of the bracketed diagnostics or has fewer than 10
\* characters once trimmed.
C12_WarningOnSoftFailure ==
    (resp.op = "upload_file" /\ resp.status = 201) =>
        \E d \in documents :
            /\ d.id = resp.body.document_id
            /\ (resp.body.warning # <<>>)
                   = (BracketedDiagnostic(d.content) \/ Len(Strip(d.content)) < 10)

====
